---- MODULE Spec2Model ----
(***************************************************************************)
(* Model of token_throttle.py: TokenThrottle, a token budget tracked over  *)
(* a 60 second window (wait_if_needed, remaining_tokens,                   *)
(* seconds_until_reset, reset), the text splitter _split_text and the      *)
(* generator consume.                                                      *)
(*                                                                         *)
(* Time is counted in ticks of half a second, the resolution of the two    *)
(* time constants of the code (60.0 and 0.5).  Only time.sleep and the     *)
(* caller between two calls take time: the clock readings one call makes   *)
(* before it sleeps are one reading.  Token counts are naturals.           *)
(* A float ratio (margin, chars_per_token) is a pair <<num, den>>.         *)
(***************************************************************************)
EXTENDS Integers, Sequences, FiniteSets, TLC

VARIABLES
    tpm,            \* self.tpm
    margin,         \* self.margin, <<num, den>>
    strict,         \* self.strict
    budget,         \* self.budget
    chunk_size,     \* self.chunk_size
    chars_per_token,\* self.chars_per_token, <<num, den>>
    tokens_used,    \* self._tokens_used
    window_start,   \* self._window_start
    clock,          \* the reading time.monotonic() gives now
    ret,            \* what the last call did: operation, argument, outcome
    max_requested,  \* history: the largest tokens argument of wait_if_needed so far
    text,           \* the text given to consume / _split_text
    max_chars,      \* max_chars of consume and _split_text
    remaining,      \* remaining of _split_text
    chunks,         \* chunks of _split_text and of consume
    break_pos,      \* break_pos of the last iteration of _split_text
    pc,             \* where the call of consume stands
    yielded,        \* the chunks consume has yielded to its caller, in order
    admit_log,      \* history: the tokens of the wait_if_needed calls consume made
    args,           \* history: the class constructed and the arguments it was given
    history,        \* history: <<clock at return, tokens>> of the wait_if_needed
                    \* calls that returned, in order
    window_mark,    \* history: how many of them had returned when _window_start
                    \* was last assigned
    calls,          \* per execution context: the statement of wait_if_needed
                    \* it stands at and the locals of its call
    audit           \* history: what the calls of the contexts should have left

vars == <<tpm, margin, strict, budget, chunk_size, chars_per_token,
          tokens_used, window_start, clock, ret, max_requested,
          text, max_chars, remaining, chunks, break_pos, pc, yielded, admit_log,
          args, history, window_mark, calls, audit>>

splitter == <<text, max_chars, remaining, chunks, break_pos>>

tracker == <<tokens_used, window_start, clock, ret, max_requested, history, window_mark>>

log == <<history, window_mark>>

callers == <<calls, audit>>

config == <<tpm, margin, strict, budget, chunk_size, chars_per_token, args>>

----------------------------------------------------------------------------
(* Bounds of the model *)

MaxClock == 370
MaxTokens == 4
MaxOversleep == 1
MaxTextLen == 6
MaxChunkSize == 5
MaxChunks == 9
MaxConsumeLen == 4
MaxAdmits == 3
MaxCalls == 3

(* Constants of the code, in ticks of half a second *)

Window == 120
Buffer == 1

\* Optional[int]: None is the empty sequence, a value v is <<v>>
None == <<>>
Some(v) == <<v>>

Max(a, b) == IF a >= b THEN a ELSE b
Min(a, b) == IF a <= b THEN a ELSE b

\* int(x * r) for x >= 0 and a ratio r = <<num, den>> >= 0
IntMul(x, r) == (x * r[1]) \div r[2]

\* int(x / r) for x >= 0 and a ratio r = <<num, den>> > 0
IntDiv(x, r) == (x * r[2]) \div r[1]

----------------------------------------------------------------------------
(* TokenThrottle.__init__ *)

TokenThrottleInit_TruthyBudget(tokens_per_minute, margin_, budget_, chunk_size_, chars_per_token_, strict_) ==
    LET effective == IntMul(tokens_per_minute, margin_)
        b == IF budget_ # None /\ budget_[1] # 0 THEN Min(budget_[1], effective) ELSE effective
    IN  [tpm |-> tokens_per_minute,
         margin |-> margin_,
         strict |-> strict_,
         budget |-> b,
         chunk_size |-> IF chunk_size_ # None /\ chunk_size_[1] # 0 THEN chunk_size_[1] ELSE b,
         chars_per_token |-> chars_per_token_,
         tokens_used |-> 0]
TokenThrottleInit(tokens_per_minute, margin_, budget_, chunk_size_, chars_per_token_, strict_) ==
    LET effective == IntMul(tokens_per_minute, margin_)
        b == IF budget_ # None THEN Min(budget_[1], effective) ELSE effective
    IN  [tpm |-> tokens_per_minute,
         margin |-> margin_,
         strict |-> strict_,
         budget |-> b,
         \* chunk_size or self.budget: None and 0 are both falsy
         chunk_size |-> IF chunk_size_ # None /\ chunk_size_[1] # 0 THEN chunk_size_[1] ELSE b,
         chars_per_token |-> chars_per_token_,
         tokens_used |-> 0]

\* SubAgentThrottle.__init__(total_tpm, budget_fraction, **kwargs)
SubAgentThrottleInit(total_tpm, budget_fraction, budget_, chunk_size_, chars_per_token_, strict_) ==
    TokenThrottleInit(total_tpm, budget_fraction, budget_, chunk_size_, chars_per_token_, strict_)

\* the arguments of one construction
Args(cls, tokens_per_minute, margin_, budget_, chunk_size_, chars_per_token_, strict_) ==
    [cls |-> cls, tokens_per_minute |-> tokens_per_minute, margin |-> margin_,
     budget |-> budget_, chunk_size |-> chunk_size_,
     chars_per_token |-> chars_per_token_, strict |-> strict_]

\* the object the constructor of a.cls makes from the arguments a
Construct(a) ==
    IF a.cls = "SubAgentThrottle"
    THEN SubAgentThrottleInit(a.tokens_per_minute, a.margin, a.budget,
                              a.chunk_size, a.chars_per_token, a.strict)
    ELSE TokenThrottleInit(a.tokens_per_minute, a.margin, a.budget,
                           a.chunk_size, a.chars_per_token, a.strict)

\* the execution contexts that share the tracker; none of them is in a call
Contexts == {1, 2}
NotCalling == [at |-> "idle", tokens |-> 0, tmp |-> 0, wake |-> 0, value |-> 0]
NoCalls == [c \in Contexts |-> NotCalling]
NoAudit == [owed |-> 0, overlap |-> FALSE, made |-> 0]

NoCall == [op |-> "init", tokens |-> 0, outcome |-> "none", value |-> 0]

InitFrom(a) ==
    LET c == Construct(a) IN
    /\ args = a
    /\ tpm = c.tpm
    /\ margin = c.margin
    /\ strict = c.strict
    /\ budget = c.budget
    /\ chunk_size = c.chunk_size
    /\ chars_per_token = c.chars_per_token
    /\ tokens_used = c.tokens_used
    /\ clock = 0
    /\ window_start = clock
    /\ ret = NoCall
    /\ max_requested = 0
    /\ history = <<>>
    /\ window_mark = 0
    /\ calls = NoCalls
    /\ audit = NoAudit

\* no call of consume is under way
NoConsume ==
    /\ text = <<>>
    /\ max_chars = 0
    /\ remaining = <<>>
    /\ chunks = <<>>
    /\ break_pos = 0
    /\ pc = "idle"
    /\ yielded = <<>>
    /\ admit_log = <<>>

Init ==
    /\ \E b \in {None, Some(2)}, s \in BOOLEAN :
          InitFrom(Args("TokenThrottle", 4, <<3, 4>>, b, None, <<1, 1>>, s))
    /\ NoConsume

----------------------------------------------------------------------------
(* Estimation *)

\* estimate(text)
Estimate(t) == Max(1, IntDiv(Len(t), chars_per_token))

----------------------------------------------------------------------------
(* Window management *)

\* _maybe_reset_window: the pair <<_tokens_used, _window_start>> it leaves
MaybeResetWindow_KeepUsed ==
    LET elapsed == clock - window_start
    IN  IF elapsed >= Window THEN <<tokens_used, clock>> ELSE <<tokens_used, window_start>>
MaybeResetWindow_After ==
    LET elapsed == clock - window_start
    IN  IF elapsed > Window THEN <<0, clock>> ELSE <<tokens_used, window_start>>
MaybeResetWindow ==
    LET elapsed == clock - window_start
    IN  IF elapsed >= Window THEN <<0, clock>> ELSE <<tokens_used, window_start>>

\* reset()
Reset ==
    /\ tokens_used' = 0
    /\ window_start' = clock
    /\ ret' = [op |-> "reset", tokens |-> 0, outcome |-> "none", value |-> 0]
    /\ UNCHANGED <<config, clock, max_requested>>

----------------------------------------------------------------------------
(* Throttling *)

\* line 106: the request can never fit one window and strict mode rejects it
Oversized_Saturated(tokens) == strict /\ tokens_used + tokens > budget
Oversized_Disabled(tokens) == FALSE
Oversized(tokens) == strict /\ tokens > budget

\* line 114: the request fits what is left of the window
Fits_EmptyWindow(used, tokens) == used + tokens <= budget \/ used = 0
Fits_Alone(used, tokens) == tokens <= budget
Fits(used, tokens) == used + tokens <= budget

\* lines 107-110: raise BudgetExceeded, before anything is read or written
RaiseBudgetExceeded_Rolled(tokens) ==
    /\ tokens_used' = (IF clock - window_start >= Window THEN 0 ELSE tokens_used)
    /\ window_start' = (IF clock - window_start >= Window THEN clock ELSE window_start)
    /\ ret' = [op |-> "wait_if_needed", tokens |-> tokens,
               outcome |-> "raised", value |-> 0]
    /\ UNCHANGED <<config, clock>>
RaiseBudgetExceeded(tokens) ==
    /\ ret' = [op |-> "wait_if_needed", tokens |-> tokens,
               outcome |-> "raised", value |-> 0]
    /\ UNCHANGED <<config, tokens_used, window_start, clock>>

\* lines 115-116, after the roll left w = <<_tokens_used, _window_start>>
FastPath_Overwrite(tokens, w) ==
    /\ tokens_used' = tokens
    /\ window_start' = w[2]
    /\ ret' = [op |-> "wait_if_needed", tokens |-> tokens,
               outcome |-> "fast", value |-> 0]
    /\ UNCHANGED <<config, clock>>
FastPath(tokens, w) ==
    /\ tokens_used' = w[1] + tokens
    /\ window_start' = w[2]
    /\ ret' = [op |-> "wait_if_needed", tokens |-> tokens,
               outcome |-> "fast", value |-> 0]
    /\ UNCHANGED <<config, clock>>

\* line 120: sleep_time, from the window start the roll left
SleepTime_NoBuffer(start) == Max(0, Window - (clock - start))
SleepTime(start) == Max(0, Window - (clock - start) + Buffer)

\* lines 119-127, after the roll left w = <<_tokens_used, _window_start>>
SlowPath_Accumulate(tokens, w) ==
    LET sleep_time == SleepTime(w[2])
    IN  /\ \E late \in 0..MaxOversleep :
              clock' = IF sleep_time > 0 THEN clock + sleep_time + late ELSE clock
        /\ clock' <= MaxClock
        /\ tokens_used' = w[1] + tokens
        /\ window_start' = clock'
        /\ ret' = [op |-> "wait_if_needed", tokens |-> tokens,
                   outcome |-> IF sleep_time > 0 THEN "slept" ELSE "nosleep",
                   value |-> sleep_time]
        /\ UNCHANGED config
SlowPath(tokens, w) ==
    LET sleep_time == SleepTime(w[2])
    IN  \* time.sleep(sleep_time) returns no sooner than asked
        /\ \E late \in 0..MaxOversleep :
              clock' = IF sleep_time > 0 THEN clock + sleep_time + late ELSE clock
        /\ clock' <= MaxClock
        /\ tokens_used' = tokens
        /\ window_start' = clock'
        /\ ret' = [op |-> "wait_if_needed", tokens |-> tokens,
                   outcome |-> IF sleep_time > 0 THEN "slept" ELSE "nosleep",
                   value |-> sleep_time]
        /\ UNCHANGED config

\* wait_if_needed(tokens)
WaitIfNeeded(tokens) ==
    IF Oversized(tokens)
    THEN RaiseBudgetExceeded(tokens)
    ELSE LET w == MaybeResetWindow
         IN  IF Fits(w[1], tokens) THEN FastPath(tokens, w) ELSE SlowPath(tokens, w)

----------------------------------------------------------------------------
(* Chunking.  A text is a sequence of characters; positions are counted    *)
(* from 0 as in the code, so s[:n] is SubSeq(s, 1, n).                      *)

NL == "\n"
SP == " "

\* str.isspace, the class of \s and of rstrip() / lstrip()
IsSpace(c) == c \in {SP, NL, "\t", "\r"}

\* the class [.!?]
IsSentenceEnd(c) == c \in {".", "!", "?"}

SetMax(S) == CHOOSE x \in S : \A y \in S : y <= x
SetMin(S) == CHOOSE x \in S : \A y \in S : x <= y

\* s[:n] for n >= 0
Prefix(s, n) == SubSeq(s, 1, Min(n, Len(s)))

\* s[n:] for n >= 0
Suffix(s, n) == SubSeq(s, n + 1, Len(s))

\* s.rfind("\n\n")
RFindParagraph(s) ==
    LET I == {i \in 0..(Len(s) - 2) : s[i + 1] = NL /\ s[i + 2] = NL}
    IN  IF I = {} THEN -1 ELSE SetMax(I)

\* s.rfind(" ")
RFindSpace(s) ==
    LET I == {i \in 0..(Len(s) - 1) : s[i + 1] = SP}
    IN  IF I = {} THEN -1 ELSE SetMax(I)

\* the end of the last match of [.!?]\s+ in s, None when there is no match.
\* A match starts at a sentence end followed by white space and runs to the
\* end of that white space; matches cannot overlap, so the last match of
\* finditer is the one with the greatest start.
LastSentenceEnd(s) ==
    LET I == {i \in 0..(Len(s) - 2) : IsSentenceEnd(s[i + 1]) /\ IsSpace(s[i + 2])}
        start == SetMax(I)
    IN  IF I = {} THEN None
        ELSE Some(SetMin({j \in (start + 2)..Len(s) :
                              j = Len(s) \/ ~IsSpace(s[j + 1])}))

\* s.rstrip()
RStrip(s) == Prefix(s, SetMax({n \in 0..Len(s) : n = 0 \/ ~IsSpace(s[n])}))

\* s.lstrip()
LStrip_OneMore(s) == Suffix(s, Min(Len(s), 1 + SetMin({n \in 0..Len(s) : n = Len(s) \/ ~IsSpace(s[n + 1])})))
LStrip(s) == Suffix(s, SetMin({n \in 0..Len(s) : n = Len(s) \/ ~IsSpace(s[n + 1])}))

\* lines 145-161: the break position of one iteration
BreakPos_CutPastLimit(rem, mc) ==
    LET slice_ == Prefix(rem, mc)
        p1 == RFindParagraph(slice_)
        m == LastSentenceEnd(slice_)
        p2 == IF p1 < mc \div 4
              THEN (IF m # None /\ m[1] > mc \div 4 THEN m[1] ELSE -1)
              ELSE p1
        p3 == IF p2 < mc \div 4 THEN RFindSpace(slice_) ELSE p2
    IN  IF p3 < mc \div 4 THEN mc + 1 ELSE p3
BreakPos(rem, mc) ==
    LET slice_ == Prefix(rem, mc)
        p1 == RFindParagraph(slice_)
        m == LastSentenceEnd(slice_)
        p2 == IF p1 < mc \div 4
              THEN (IF m # None /\ m[1] > mc \div 4 THEN m[1] ELSE -1)
              ELSE p1
        p3 == IF p2 < mc \div 4 THEN RFindSpace(slice_) ELSE p2
    IN  IF p3 < mc \div 4 THEN mc ELSE p3

\* lines 133-134 and 136-137: the entry of _split_text(text, max_chars)
SplitEnter ==
    /\ pc = "split"
    /\ IF Len(text) <= max_chars
       THEN /\ chunks' = <<text>>
            /\ pc' = "split_done"
            /\ UNCHANGED remaining
       ELSE /\ chunks' = <<>>
            /\ remaining' = text
            /\ pc' = "split_loop"
    /\ UNCHANGED <<text, max_chars, break_pos>>

\* lines 139-164: one evaluation of the loop condition and of the loop body.
\* The list the code builds has no bound; the model follows it up to MaxChunks.
SplitIter ==
    /\ pc = "split_loop"
    /\ Len(chunks) < MaxChunks
    /\ IF remaining = <<>>
       THEN /\ pc' = "split_done"
            /\ UNCHANGED <<remaining, chunks, break_pos>>
       ELSE IF Len(remaining) <= max_chars
       THEN /\ chunks' = Append(chunks, remaining)
            /\ pc' = "split_done"
            /\ UNCHANGED <<remaining, break_pos>>
       ELSE LET bp == BreakPos(remaining, max_chars)
            IN  /\ break_pos' = bp
                /\ chunks' = Append(chunks, RStrip(Prefix(remaining, bp)))
                /\ remaining' = LStrip(Suffix(remaining, bp))
                /\ pc' = "split_loop"
    /\ UNCHANGED <<text, max_chars>>

\* _split_text(text, max_chars) as a whole: the list it returns, or
\* returns |-> FALSE when the loop never ends.  An iteration that leaves
\* remaining as it was repeats for ever; any other one shortens it.
RECURSIVE SplitLoop(_, _, _)
SplitLoop(rem, acc, mc) ==
    IF rem = <<>> THEN [returns |-> TRUE, chunks |-> acc]
    ELSE IF Len(rem) <= mc THEN [returns |-> TRUE, chunks |-> Append(acc, rem)]
    ELSE LET bp == BreakPos(rem, mc)
             rest == LStrip(Suffix(rem, bp))
         IN  IF rest = rem
             THEN [returns |-> FALSE, chunks |-> acc]
             ELSE SplitLoop(rest, Append(acc, RStrip(Prefix(rem, bp))), mc)

SplitText(t, mc) ==
    IF Len(t) <= mc
    THEN [returns |-> TRUE, chunks |-> <<t>>]
    ELSE SplitLoop(t, <<>>, mc)

----------------------------------------------------------------------------
(* Main interface: consume(text) is a generator.  Calling it runs nothing;  *)
(* each next() of the caller runs it up to the next yield.                  *)

\* line 177
MaxChars == IntMul(chunk_size, chars_per_token)

\* consume(t): the generator object is made
Consume(t) ==
    /\ pc = "idle"
    /\ text' = t
    /\ pc' = "created"
    /\ UNCHANGED <<config, tracker, max_chars, remaining, chunks, break_pos,
                   yielded, admit_log>>

\* lines 180-183: one pass of the for loop over the list cs, up to the yield,
\* when the caller has received the chunks in yielded
ConsumeStep_YieldFirst(cs) ==
    IF Len(yielded) >= Len(cs)
    THEN /\ pc' = "exhausted"
         /\ UNCHANGED <<config, tracker, yielded, admit_log>>
    ELSE IF yielded = <<>>
    THEN /\ yielded' = Append(yielded, cs[1])
         /\ pc' = "yielded"
         /\ UNCHANGED <<config, tracker, admit_log>>
    ELSE LET tokens == Estimate(cs[Len(yielded)])
         IN  /\ WaitIfNeeded(tokens)
             /\ max_requested' = Max(max_requested, tokens)
             /\ admit_log' = Append(admit_log, tokens)
             /\ UNCHANGED log
             /\ IF Oversized(tokens)
                THEN pc' = "raised" /\ UNCHANGED yielded
                ELSE pc' = "yielded" /\ yielded' = Append(yielded, cs[Len(yielded) + 1])
ConsumeStep(cs) ==
    IF Len(yielded) >= Len(cs)
    THEN \* the list is exhausted: StopIteration
         /\ pc' = "exhausted"
         /\ UNCHANGED <<config, tracker, yielded, admit_log>>
    ELSE LET chunk == cs[Len(yielded) + 1]
             tokens == Estimate(chunk)
         IN  /\ WaitIfNeeded(tokens)
             /\ max_requested' = Max(max_requested, tokens)
             /\ admit_log' = Append(admit_log, tokens)
             /\ UNCHANGED log
             /\ IF Oversized(tokens)
                THEN \* BudgetExceeded leaves the generator
                     pc' = "raised" /\ UNCHANGED yielded
                ELSE pc' = "yielded" /\ yielded' = Append(yielded, chunk)

\* next() on the generator
ConsumeNext ==
    \/ /\ pc = "created"
       /\ max_chars' = MaxChars
       /\ LET r == SplitText(text, MaxChars)
          IN  IF r.returns
              THEN chunks' = r.chunks /\ ConsumeStep(r.chunks)
              ELSE \* _split_text never returns
                   /\ pc' = "hung"
                   /\ UNCHANGED <<config, tracker, chunks, yielded, admit_log>>
       /\ UNCHANGED <<text, remaining, break_pos>>
    \/ /\ pc = "yielded"
       /\ ConsumeStep(chunks)
       /\ UNCHANGED splitter

\* the caller abandons the generator: close() at the yield, or before the
\* first next()
ConsumeClose ==
    /\ pc \in {"created", "yielded"}
    /\ pc' = "closed"
    /\ UNCHANGED <<config, tracker, splitter, yielded, admit_log>>

----------------------------------------------------------------------------
(* Utilities *)

\* remaining_tokens
RemainingTokens ==
    LET w == MaybeResetWindow
    IN  /\ tokens_used' = w[1]
        /\ window_start' = w[2]
        /\ ret' = [op |-> "remaining_tokens", tokens |-> 0, outcome |-> "none",
                   value |-> Max(0, budget - w[1])]
        /\ UNCHANGED <<config, clock, max_requested>>

\* seconds_until_reset
SecondsUntilReset_Rolling ==
    LET w == MaybeResetWindow
    IN  /\ tokens_used' = w[1]
        /\ window_start' = w[2]
        /\ ret' = [op |-> "seconds_until_reset", tokens |-> 0, outcome |-> "none",
                   value |-> Max(0, Window - (clock - w[2]))]
        /\ UNCHANGED <<config, clock, max_requested>>
SecondsUntilReset ==
    LET elapsed == clock - window_start
    IN  /\ ret' = [op |-> "seconds_until_reset", tokens |-> 0, outcome |-> "none",
                   value |-> Max(0, Window - elapsed)]
        /\ UNCHANGED <<config, tokens_used, window_start, clock, max_requested>>

----------------------------------------------------------------------------
(* The monotonic clock moves between calls *)

TickSet == {Window \div 2, Window - 1}

\* d ticks pass
TickBy(d) ==
    /\ clock + d <= MaxClock
    /\ clock' = clock + d
    /\ UNCHANGED <<config, tokens_used, window_start, ret, max_requested>>

Tick == \E d \in TickSet : TickBy(d)

Admit ==
    \E tokens \in 0..MaxTokens :
        /\ WaitIfNeeded(tokens)
        /\ max_requested' = Max(max_requested, tokens)

\* the history of a step that ran wait_if_needed: a call that returned is
\* added with the clock at its return; the mark moves when the call assigned
\* _window_start (line 88 or line 126), before the call's own charge
Logged ==
    /\ Len(history) < MaxAdmits
    /\ IF ret'.outcome = "raised"
       THEN UNCHANGED log
       ELSE /\ history' = Append(history, <<clock', ret'.tokens>>)
            /\ window_mark' = IF window_start' # window_start
                               THEN Len(history) ELSE window_mark

\* the history of a step that ran remaining_tokens: line 88 moves the mark
RolledMark ==
    /\ window_mark' = IF window_start' # window_start THEN Len(history) ELSE window_mark
    /\ UNCHANGED history

\* the history of a step that ran reset(): line 93 moves the mark
ResetMark ==
    /\ window_mark' = Len(history)
    /\ UNCHANGED history

Next ==
    \/ Admit /\ UNCHANGED <<splitter, pc, yielded, admit_log, log, callers>>
    \/ RemainingTokens /\ UNCHANGED <<splitter, pc, yielded, admit_log, log, callers>>
    \/ SecondsUntilReset /\ UNCHANGED <<splitter, pc, yielded, admit_log, log, callers>>
    \/ Reset /\ UNCHANGED <<splitter, pc, yielded, admit_log, log, callers>>
    \/ Tick /\ UNCHANGED <<splitter, pc, yielded, admit_log, log, callers>>

Spec == Init /\ [][Next]_vars

----------------------------------------------------------------------------
(* The tracker as in Spec, and beside it a tracker with a budget of 100     *)
(* that is asked for 90 and for 50 tokens while the clock moves in steps    *)
(* of 10 s.                                                                  *)

InitScenario ==
    /\ \E s \in BOOLEAN :
          InitFrom(Args("TokenThrottle", 100, <<1, 1>>, None, None, <<4, 1>>, s))
    /\ NoConsume

ScenarioRequests == {50, 90}

AdmitScenario ==
    \E tokens \in ScenarioRequests :
        /\ WaitIfNeeded(tokens)
        /\ max_requested' = Max(max_requested, tokens)

NextScenario ==
    \/ AdmitScenario /\ UNCHANGED <<splitter, pc, yielded, admit_log, log, callers>>
    \/ TickBy(20) /\ UNCHANGED <<splitter, pc, yielded, admit_log, log, callers>>

InitWait == Init \/ InitScenario

NextWait ==
    \/ budget # 100 /\ Next
    \/ budget = 100 /\ NextScenario

SpecWait == InitWait /\ [][NextWait]_vars

----------------------------------------------------------------------------
(* The tracker with the history of its admissions: wait_if_needed,          *)
(* remaining_tokens and reset from one caller while the clock moves.        *)

InitHistory ==
    /\ \E s \in BOOLEAN :
          InitFrom(Args("TokenThrottle", 4, <<3, 4>>, None, None, <<1, 1>>, s))
    /\ NoConsume

\* a small request, one of the whole budget, one above it
AdmitSome ==
    \E tokens \in {1, budget, budget + 1} :
        /\ WaitIfNeeded(tokens)
        /\ max_requested' = Max(max_requested, tokens)

NextHistory ==
    \/ AdmitSome /\ Logged /\ UNCHANGED <<splitter, pc, yielded, admit_log, callers>>
    \/ RemainingTokens /\ RolledMark /\ UNCHANGED <<splitter, pc, yielded, admit_log, callers>>
    \/ Reset /\ ResetMark /\ UNCHANGED <<splitter, pc, yielded, admit_log, callers>>
    \/ Tick /\ UNCHANGED <<splitter, pc, yielded, admit_log, log, callers>>

SpecHistory == InitHistory /\ [][NextHistory]_vars

\* wait_if_needed calls and clock advances only
NextRate ==
    \/ AdmitSome /\ Logged /\ UNCHANGED <<splitter, pc, yielded, admit_log, callers>>
    \/ Tick /\ UNCHANGED <<splitter, pc, yielded, admit_log, log, callers>>

SpecRate == InitHistory /\ [][NextRate]_vars

----------------------------------------------------------------------------
(* Construction alone: TokenThrottle(...) and SubAgentThrottle(...) on      *)
(* arguments drawn from small sets, the defaults of the code among them.    *)

ConstructorArgs ==
    {Args(cls, t, m, b, cs, <<4, 1>>, s) :
        cls \in {"TokenThrottle", "SubAgentThrottle"},
        t \in {1, 4, 30000},
        m \in {<<2, 5>>, <<1, 2>>, <<17, 20>>, <<1, 1>>},
        b \in {None, Some(0), Some(2), Some(15000), Some(40000)},
        cs \in {None, Some(0), Some(3)},
        s \in BOOLEAN}

\* nothing is constructed yet: the arguments are chosen
InitConstruct ==
    /\ args \in ConstructorArgs
    /\ tpm = 0
    /\ margin = <<0, 1>>
    /\ strict = FALSE
    /\ budget = 0
    /\ chunk_size = 0
    /\ chars_per_token = <<1, 1>>
    /\ tokens_used = 0
    /\ clock = 0
    /\ window_start = 0
    /\ ret = NoCall
    /\ max_requested = 0
    /\ history = <<>>
    /\ window_mark = 0
    /\ text = <<>>
    /\ max_chars = 0
    /\ remaining = <<>>
    /\ chunks = <<>>
    /\ break_pos = 0
    /\ pc = "new"
    /\ yielded = <<>>
    /\ admit_log = <<>>
    /\ calls = NoCalls
    /\ audit = NoAudit

\* lines 65-74 (through lines 246-250 for SubAgentThrottle)
New ==
    LET c == Construct(args) IN
    /\ pc = "new"
    /\ tpm' = c.tpm
    /\ margin' = c.margin
    /\ strict' = c.strict
    /\ budget' = c.budget
    /\ chunk_size' = c.chunk_size
    /\ chars_per_token' = c.chars_per_token
    /\ tokens_used' = c.tokens_used
    /\ window_start' = clock
    /\ pc' = "idle"
    /\ UNCHANGED <<args, clock, ret, max_requested, splitter, yielded, admit_log, log, callers>>

NextConstruct ==
    \/ New
    \/ pc = "idle" /\ RemainingTokens /\ UNCHANGED <<splitter, pc, yielded, admit_log, log, callers>>

SpecConstruct == InitConstruct /\ [][NextConstruct]_vars

----------------------------------------------------------------------------
(* _split_text alone, on every text of at most MaxTextLen characters and    *)
(* every max_chars that line 177 derives from chunk_size and               *)
(* chars_per_token.                                                        *)

Alphabet == {"a", ".", SP, NL}

Texts == UNION {[1..n -> Alphabet] : n \in 0..MaxTextLen}

\* chars_per_token: 0.5 and 1.0
CharsPerTokenSet == {<<1, 2>>, <<1, 1>>}

InitSplit ==
    /\ \E cs \in 1..MaxChunkSize, cpt \in CharsPerTokenSet :
          InitFrom(Args("TokenThrottle", 4, <<3, 4>>, None, Some(cs), cpt, FALSE))
    /\ text \in Texts
    /\ max_chars = MaxChars
    /\ remaining = <<>>
    /\ chunks = <<>>
    /\ break_pos = 0
    /\ pc = "split"
    /\ yielded = <<>>
    /\ admit_log = <<>>

NextSplit ==
    \/ SplitEnter /\ UNCHANGED <<config, tracker, yielded, admit_log, callers>>
    \/ SplitIter /\ UNCHANGED <<config, tracker, yielded, admit_log, callers>>

SpecSplit == InitSplit /\ [][NextSplit]_vars

----------------------------------------------------------------------------
(* consume on a new tracker: the caller makes the generator, then steps or  *)
(* abandons it while the clock moves.                                      *)

ConsumeTexts == UNION {[1..n -> {"a", SP}] : n \in 0..MaxConsumeLen}

InitConsume ==
    /\ \E b \in {None, Some(2)}, cs \in {None, Some(1), Some(3)},
          cpt \in CharsPerTokenSet, s \in BOOLEAN :
          InitFrom(Args("TokenThrottle", 4, <<3, 4>>, b, cs, cpt, s))
    /\ NoConsume

NextConsume ==
    \/ (\E t \in ConsumeTexts : Consume(t)) /\ UNCHANGED callers
    \/ ConsumeNext /\ UNCHANGED callers
    \/ ConsumeClose /\ UNCHANGED callers
    \/ Tick /\ UNCHANGED <<splitter, pc, yielded, admit_log, log, callers>>

SpecConsume == InitConsume /\ [][NextConsume]_vars

----------------------------------------------------------------------------
(* Two execution contexts call wait_if_needed on one tracker with no lock.  *)
(* A context runs one statement of lines 106-127 at a time, and             *)
(* self._tokens_used += tokens is a read followed by a write; the contexts   *)
(* interleave at every statement.  Statements take no time: the clock moves  *)
(* only while every context is outside a call or asleep in time.sleep.       *)

\* a context stands between two calls
Rest == {"idle", "returned", "raised"}

\* the requests of the contexts: each within the budget
SharedRequests == {1, budget}

InitShared ==
    /\ \E s \in BOOLEAN :
          InitFrom(Args("TokenThrottle", 4, <<3, 4>>, None, None, <<4, 1>>, s))
    /\ NoConsume

\* context c moves to statement l of its call
Goto(c, l) == calls' = [calls EXCEPT ![c].at = l]

\* context c calls wait_if_needed(tokens); the call overlaps if another
\* context is inside a call
Call(c, tokens) ==
    /\ calls[c].at \in Rest
    /\ audit.made < MaxCalls
    /\ calls' = [calls EXCEPT ![c] = [at |-> "l106", tokens |-> tokens,
                                      tmp |-> 0, wake |-> 0, value |-> 0]]
    /\ audit' = [audit EXCEPT
                    !.made = @ + 1,
                    !.overlap = @ \/ \E d \in Contexts \ {c} : calls[d].at \notin Rest]
    /\ UNCHANGED <<config, tokens_used, window_start, clock>>

\* lines 106-110
CheckStrict(c) ==
    /\ calls[c].at = "l106"
    /\ Goto(c, IF Oversized(calls[c].tokens) THEN "raised" ELSE "l85")
    /\ UNCHANGED <<config, tokens_used, window_start, clock, audit>>

\* lines 85-86 of _maybe_reset_window, called at line 112
RollTest(c) ==
    /\ calls[c].at = "l85"
    /\ Goto(c, IF clock - window_start >= Window THEN "l87" ELSE "l114")
    /\ UNCHANGED <<config, tokens_used, window_start, clock, audit>>

\* line 87
RollCount(c) ==
    /\ calls[c].at = "l87"
    /\ tokens_used' = 0
    /\ audit' = [audit EXCEPT !.owed = 0]
    /\ Goto(c, "l88")
    /\ UNCHANGED <<config, window_start, clock>>

\* line 88
RollStart(c) ==
    /\ calls[c].at = "l88"
    /\ window_start' = clock
    /\ Goto(c, "l114")
    /\ UNCHANGED <<config, tokens_used, clock, audit>>

\* line 114
FitsTest(c) ==
    /\ calls[c].at = "l114"
    /\ Goto(c, IF Fits(tokens_used, calls[c].tokens) THEN "l115" ELSE "l119")
    /\ UNCHANGED <<config, tokens_used, window_start, clock, audit>>

\* line 115, the read of self._tokens_used
AddRead(c) ==
    /\ calls[c].at = "l115"
    /\ calls' = [calls EXCEPT ![c].at = "l115w", ![c].tmp = tokens_used]
    /\ UNCHANGED <<config, tokens_used, window_start, clock, audit>>

\* lines 115-116, the write of self._tokens_used and the return
AddWrite_Overwrite(c) ==
    /\ calls[c].at = "l115w"
    /\ tokens_used' = calls[c].tokens
    /\ audit' = [audit EXCEPT !.owed = @ + calls[c].tokens]
    /\ calls' = [calls EXCEPT ![c].at = "returned", ![c].tmp = 0, ![c].value = 0]
    /\ UNCHANGED <<config, window_start, clock>>
AddWrite(c) ==
    /\ calls[c].at = "l115w"
    /\ tokens_used' = calls[c].tmp + calls[c].tokens
    /\ audit' = [audit EXCEPT !.owed = @ + calls[c].tokens]
    /\ calls' = [calls EXCEPT ![c].at = "returned", ![c].tmp = 0, ![c].value = 0]
    /\ UNCHANGED <<config, window_start, clock>>

\* lines 119-121
SleepTest(c) ==
    LET sleep_time == SleepTime(window_start)
    IN  /\ calls[c].at = "l119"
        /\ calls' = [calls EXCEPT ![c].at = IF sleep_time > 0 THEN "l122" ELSE "l125",
                                  ![c].value = sleep_time,
                                  ![c].wake = clock + sleep_time]
        /\ UNCHANGED <<config, tokens_used, window_start, clock, audit>>

\* line 122: time.sleep returns once sleep_time has passed
Wake(c) ==
    /\ calls[c].at = "l122"
    /\ clock >= calls[c].wake
    /\ calls' = [calls EXCEPT ![c].at = "l125", ![c].wake = 0]
    /\ UNCHANGED <<config, tokens_used, window_start, clock, audit>>

\* line 125
ResetCount(c) ==
    /\ calls[c].at = "l125"
    /\ tokens_used' = calls[c].tokens
    /\ audit' = [audit EXCEPT !.owed = calls[c].tokens]
    /\ Goto(c, "l126")
    /\ UNCHANGED <<config, window_start, clock>>

\* lines 126-127
ResetStart(c) ==
    /\ calls[c].at = "l126"
    /\ window_start' = clock
    /\ Goto(c, "returned")
    /\ UNCHANGED <<config, tokens_used, clock, audit>>

\* the clock moves while no context stands at a statement; a sleeper is
\* woken at most MaxOversleep late
Sleepers == {c \in Contexts : calls[c].at = "l122"}

TickShared ==
    /\ \A c \in Contexts : calls[c].at \in Rest \cup {"l122"}
    /\ \E d \in TickSet \cup {calls[c].wake - clock + late :
                                c \in Sleepers, late \in 0..MaxOversleep} :
          /\ d > 0
          /\ clock + d <= MaxClock
          /\ \A c \in Sleepers : clock + d <= calls[c].wake + MaxOversleep
          /\ clock' = clock + d
    /\ UNCHANGED <<config, tokens_used, window_start, callers>>

NextShared ==
    \/ \E c \in Contexts, tokens \in SharedRequests :
          Call(c, tokens) /\ UNCHANGED <<ret, max_requested, splitter, pc, yielded, admit_log, log>>
    \/ \E c \in Contexts :
          CheckStrict(c) /\ UNCHANGED <<ret, max_requested, splitter, pc, yielded, admit_log, log>>
    \/ \E c \in Contexts :
          RollTest(c) /\ UNCHANGED <<ret, max_requested, splitter, pc, yielded, admit_log, log>>
    \/ \E c \in Contexts :
          RollCount(c) /\ UNCHANGED <<ret, max_requested, splitter, pc, yielded, admit_log, log>>
    \/ \E c \in Contexts :
          RollStart(c) /\ UNCHANGED <<ret, max_requested, splitter, pc, yielded, admit_log, log>>
    \/ \E c \in Contexts :
          FitsTest(c) /\ UNCHANGED <<ret, max_requested, splitter, pc, yielded, admit_log, log>>
    \/ \E c \in Contexts :
          AddRead(c) /\ UNCHANGED <<ret, max_requested, splitter, pc, yielded, admit_log, log>>
    \/ \E c \in Contexts :
          AddWrite(c) /\ UNCHANGED <<ret, max_requested, splitter, pc, yielded, admit_log, log>>
    \/ \E c \in Contexts :
          SleepTest(c) /\ UNCHANGED <<ret, max_requested, splitter, pc, yielded, admit_log, log>>
    \/ \E c \in Contexts :
          Wake(c) /\ UNCHANGED <<ret, max_requested, splitter, pc, yielded, admit_log, log>>
    \/ \E c \in Contexts :
          ResetCount(c) /\ UNCHANGED <<ret, max_requested, splitter, pc, yielded, admit_log, log>>
    \/ \E c \in Contexts :
          ResetStart(c) /\ UNCHANGED <<ret, max_requested, splitter, pc, yielded, admit_log, log>>
    \/ TickShared /\ UNCHANGED <<ret, max_requested, splitter, pc, yielded, admit_log, log>>

SpecShared == InitShared /\ [][NextShared]_vars

----------------------------------------------------------------------------
(* Properties of the window budget tracker, checked under Spec *)

TokenRequests == 0..MaxTokens

\* what the lazy roll leaves, as the specification words it: (0, now) once
\* 60 s have elapsed since the window start, the state as it is otherwise
RolledUsed == IF clock - window_start >= Window THEN 0 ELSE tokens_used
RolledStart == IF clock - window_start >= Window THEN clock ELSE window_start

\* C1: a call of wait_if_needed whose tokens fit the budget after the lazy
\* roll returns 0 without sleeping, adds exactly tokens to _tokens_used and
\* leaves _window_start as the roll left it.
C1_FastPath ==
    [][\A t \in TokenRequests :
          (WaitIfNeeded(t) /\ ~(strict /\ t > budget) /\ RolledUsed + t <= budget)
              => /\ ret'.outcome = "fast"
                 /\ ret'.value = 0
                 /\ clock' = clock
                 /\ tokens_used' = RolledUsed + t
                 /\ window_start' = RolledStart]_vars

\* a fast-path call has added its tokens to an earlier charge of the window
C1_Witness ==
    /\ ret.op = "wait_if_needed" /\ ret.outcome = "fast" /\ ret.value = 0
    /\ ret.tokens > 0 /\ tokens_used > ret.tokens
    /\ window_start > 0

\* C2: a call of wait_if_needed that finds _tokens_used + tokens > budget
\* after the lazy roll sleeps, and when it returns _tokens_used is exactly
\* tokens and _window_start is the clock reading at resume.
C2_SlowPath ==
    [][\A t \in TokenRequests :
          (WaitIfNeeded(t) /\ ~(strict /\ t > budget) /\ RolledUsed + t > budget)
              => /\ ret'.outcome = "slept"
                 /\ clock' > clock
                 /\ tokens_used' = t
                 /\ window_start' = clock']_vars

\* a slow-path call has returned: it slept, the window restarts with its tokens
C2_Witness ==
    /\ ret.op = "wait_if_needed" /\ ret.outcome = "slept"
    /\ ret.tokens > 0 /\ ret.tokens <= budget
    /\ tokens_used = ret.tokens /\ window_start = clock

\* C3: in strict mode a call with tokens > budget raises BudgetExceeded and
\* changes neither _tokens_used nor _window_start (no roll, no charge, no
\* sleep), also when the window has expired.
C3_StrictRejection ==
    [][\A t \in TokenRequests :
          (WaitIfNeeded(t) /\ strict /\ t > budget)
              => /\ ret'.outcome = "raised"
                 /\ tokens_used' = tokens_used
                 /\ window_start' = window_start
                 /\ clock' = clock]_vars

\* BudgetExceeded was raised on an expired window that still holds a charge
C3_Witness ==
    /\ strict /\ ret.op = "wait_if_needed" /\ ret.outcome = "raised"
    /\ ret.tokens > budget
    /\ clock - window_start >= Window /\ tokens_used > 0

\* C4: wait_if_needed raises BudgetExceeded if and only if strict mode is on
\* and tokens > budget, whatever _tokens_used is: a saturated window makes a
\* request that fits the budget wait.
C4_RaisedIff ==
    [][\A t \in TokenRequests :
          WaitIfNeeded(t) => ((ret'.outcome = "raised") <=> (strict /\ t > budget))]_vars

\* in strict mode a request within the budget met a saturated window and slept
C4_Witness ==
    /\ strict /\ ret.op = "wait_if_needed" /\ ret.outcome = "slept"
    /\ ret.tokens > 0 /\ ret.tokens <= budget

\* C5 as stated: in every reachable state 0 <= _tokens_used <= budget.
C5_WindowStateBounded == tokens_used >= 0 /\ tokens_used <= budget

\* C5, amended: 0 <= _tokens_used, and _tokens_used <= budget in strict mode
\* or as long as no wait_if_needed request has exceeded the budget.
C5_BoundedWhileRequestsFit ==
    /\ tokens_used >= 0
    /\ (strict \/ max_requested <= budget) => tokens_used <= budget

\* non-strict, every request so far within the budget, the window saturated
\* once and full again
C5_Witness ==
    /\ ~strict /\ max_requested = budget /\ tokens_used = budget
    /\ window_start > 0 /\ ret.outcome = "fast"

\* C6: in non-strict mode a call with tokens > budget never raises, always
\* takes the slow path, sleeps once for at most the window plus the buffer,
\* and returns with _tokens_used = tokens.
C6_NonStrictOversized ==
    [][\A t \in TokenRequests :
          (WaitIfNeeded(t) /\ ~strict /\ t > budget)
              => /\ ret'.outcome = "slept"
                 /\ ret'.value > 0 /\ ret'.value <= Window + Buffer
                 /\ clock' >= clock + ret'.value
                 /\ tokens_used' = t]_vars

\* an oversized request slept a whole window although the window was new
C6_Witness ==
    /\ ~strict /\ ret.op = "wait_if_needed" /\ ret.outcome = "slept"
    /\ ret.tokens > budget /\ tokens_used = ret.tokens
    /\ ret.value = Window + Buffer

----------------------------------------------------------------------------
(* Properties of two contexts sharing a tracker, checked under SpecShared *)

\* both contexts are between calls and each has had a call return
BothReturned == \A c \in Contexts : calls[c].at = "returned"

\* C20 as stated: two contexts call wait_if_needed on one tracker with no
\* lock, each request within the budget; once both calls have returned,
\* _tokens_used holds every charge admitted since the count was last set
\* (none lost or overwritten) and does not exceed the budget.
C20_SharedAccounting ==
    BothReturned => (tokens_used = audit.owed /\ tokens_used <= budget)

\* C20, amended: the same holds as long as no call has begun while another
\* context was inside a call, as when every call runs under one lock.
C20_SerialAccounting ==
    (BothReturned /\ ~audit.overlap)
        => (tokens_used = audit.owed /\ tokens_used <= budget)

\* each context has had a call admitted on the fast path in the same
\* window, one after the other, and both charges are held
C20_Witness ==
    /\ BothReturned /\ ~audit.overlap /\ audit.made = 2
    /\ \A c \in Contexts : calls[c].tokens = 1 /\ calls[c].value = 0
    /\ tokens_used = 2 /\ audit.owed = 2

----------------------------------------------------------------------------
(* Properties of the window roll and of the probes, checked under Spec *)

\* C14: the roll comes before the capacity check: a call of wait_if_needed
\* made 60 s or more after the window start with tokens <= budget returns
\* without sleeping and leaves _tokens_used = tokens and _window_start = the
\* time of the call; remaining_tokens on an expired window rolls it in the
\* same way and returns the budget.
C14_RollBeforeCheck ==
    [][/\ \A t \in TokenRequests :
             (WaitIfNeeded(t) /\ clock - window_start >= Window /\ t <= budget)
                 => /\ ret'.outcome = "fast"
                    /\ ret'.value = 0
                    /\ clock' = clock
                    /\ tokens_used' = t
                    /\ window_start' = clock
       /\ (RemainingTokens /\ clock - window_start >= Window)
             => /\ ret'.value = budget
                /\ tokens_used' = 0
                /\ window_start' = clock]_vars

\* a request that fills the budget was admitted at once by a call that
\* rolled the window
C14_Witness ==
    /\ ret.op = "wait_if_needed" /\ ret.outcome = "fast"
    /\ ret.tokens = budget /\ tokens_used = budget
    /\ window_start = clock /\ clock = Window

\* C15: seconds_until_reset returns max(0, 60 - elapsed) and changes neither
\* _tokens_used nor _window_start, even when the window has expired.
C15_ReadOnlyProbe ==
    [][SecondsUntilReset
          => /\ ret'.value = Max(0, Window - (clock - window_start))
             /\ tokens_used' = tokens_used
             /\ window_start' = window_start
             /\ clock' = clock]_vars

\* seconds_until_reset has returned 0 on an expired window that still holds
\* its count
C15_Witness ==
    /\ ret.op = "seconds_until_reset" /\ ret.value = 0
    /\ clock - window_start >= Window /\ tokens_used > 0

\* C19: in strict mode, with requests that are not negative,
\* 0 <= _tokens_used <= budget in every reachable state.
C19_StrictBudget == strict => (0 <= tokens_used /\ tokens_used <= budget)

\* in strict mode a request above the budget was rejected on a full window
C19_Witness ==
    /\ strict /\ ret.op = "wait_if_needed" /\ ret.outcome = "raised"
    /\ ret.tokens > budget /\ tokens_used = budget

----------------------------------------------------------------------------
(* Properties of the suspension, checked under SpecWait *)

\* C13: a call of wait_if_needed that takes the slow path sleeps once, for
\* sleep_time = max(0, 60 - elapsed + 0.5) with elapsed measured from the
\* window start the roll left, and returns that value: more than 0.5 s, at
\* most 60.5 s, and the caller resumes after the 60 s of the old window; the
\* call returns 0 exactly when it took the fast path.  With a budget of 100,
\* 90 used and 10 s elapsed, wait_if_needed(50) waits 50.5 s and leaves 50.
C13_SuspensionLength ==
    [][\A t \in TokenRequests \cup ScenarioRequests :
          (WaitIfNeeded(t) /\ ~(strict /\ t > budget))
              => LET elapsed == clock - RolledStart
                 IN  /\ (ret'.value = 0) <=> (ret'.outcome = "fast")
                     /\ (ret'.outcome = "fast") <=> (RolledUsed + t <= budget)
                     /\ RolledUsed + t > budget
                           => /\ ret'.outcome = "slept"
                              /\ ret'.value = Max(0, Window - elapsed + Buffer)
                              /\ ret'.value > Buffer
                              /\ ret'.value <= Window + Buffer
                              /\ clock' >= clock + ret'.value
                              /\ clock' > RolledStart + Window
                     /\ (budget = 100 /\ RolledUsed = 90 /\ elapsed = 20 /\ t = 50)
                           => /\ ret'.value = 101
                              /\ tokens_used' = 50]_vars

\* budget 100: wait_if_needed(50) has waited 50.5 s and left 50 tokens used
C13_Witness ==
    /\ budget = 100 /\ ret.op = "wait_if_needed" /\ ret.tokens = 50
    /\ ret.outcome = "slept" /\ ret.value = 101
    /\ tokens_used = 50 /\ window_start = clock /\ clock = 121

----------------------------------------------------------------------------
(* Properties of the admission history, checked under SpecHistory *)

\* the tokens of the calls of the history whose positions are in J
RECURSIVE SumOver(_)
SumOver(J) ==
    IF J = {} THEN 0
    ELSE LET j == CHOOSE k \in J : TRUE
         IN  history[j][2] + SumOver(J \ {j})

\* the tokens of the calls that returned in the 60 s that end with call i
AdmittedWithinWindowUpTo(i) ==
    SumOver({j \in 1..Len(history) : /\ history[j][1] <= history[i][1]
                                      /\ history[j][1] > history[i][1] - Window})

\* C12: after any sequence of wait_if_needed calls and clock advances in
\* which every request is within the budget, the tokens admitted within any
\* interval of 60 s are together within the budget, across a window roll
\* too.
C12_RateBound ==
    max_requested <= budget =>
        \A i \in 1..Len(history) : AdmittedWithinWindowUpTo(i) <= budget

\* the tokens of the calls that returned since _window_start was assigned
AdmittedSinceWindowStart ==
    SumOver({j \in 1..Len(history) : j > window_mark})

\* C18: _tokens_used is the sum of the tokens of exactly those wait_if_needed
\* calls that returned since the current _window_start was set (calls at one
\* clock reading taken in their order): 0 after construction, a roll or a
\* reset, the call's own tokens after a slow-path resume.
C18_Accounting == tokens_used = AdmittedSinceWindowStart

\* three calls returned, the first in a window that is over, the other two
\* in the current one
C18_Witness ==
    /\ Len(history) = 3 /\ window_mark = 1
    /\ history[1][2] > 0 /\ history[2][2] > 0 /\ history[3][2] > 0
    /\ tokens_used = history[2][2] + history[3][2]
    /\ history[1][1] < window_start

----------------------------------------------------------------------------
(* Properties of construction, checked under SpecConstruct *)

\* floor(rateLimit * marginFactor) of the arguments
DeratedLimit == (args.tokens_per_minute * args.margin[1]) \div args.margin[2]

\* the budget the derivation rule gives
DerivedBudget ==
    IF args.budget # None THEN Min(args.budget[1], DeratedLimit) ELSE DeratedLimit

\* C11 as stated: after construction budget is min(budget argument, floor(
\* tokens_per_minute * margin)) when a budget is given, 0 included, and the
\* floor otherwise; it is > 0; chunk_size is the chunk_size given, or budget
\* when none is given; SubAgentThrottle follows the same rule with
\* margin = budget_fraction.
C11_BudgetDerivation ==
    pc # "new" =>
        /\ budget = DerivedBudget
        /\ budget > 0
        /\ chunk_size = (IF args.chunk_size # None THEN args.chunk_size[1] ELSE budget)

\* C11, amended: the derivation rule holds as stated, for both classes; the
\* budget is > 0 exactly when floor(tokens_per_minute * margin) > 0 and the
\* budget given, if any, is > 0; chunk_size is the chunk_size given when it
\* is given and not 0, and budget otherwise; 30000 with 0.5 gives 15000 and
\* with 0.4 gives 12000.
C11_BudgetDerivationAmended ==
    pc # "new" =>
        /\ budget = DerivedBudget
        /\ budget >= 0
        /\ budget > 0 <=> (DeratedLimit > 0 /\ (args.budget # None => args.budget[1] > 0))
        /\ chunk_size = (IF args.chunk_size # None /\ args.chunk_size[1] # 0
                         THEN args.chunk_size[1] ELSE budget)
        /\ (args.tokens_per_minute = 30000 /\ args.budget = None)
              => /\ args.margin = <<1, 2>> => budget = 15000
                 /\ args.margin = <<2, 5>> => budget = 12000

\* a SubAgentThrottle made from 30000 and 0.4 with a budget of 0 given
C11_Witness ==
    /\ pc = "idle" /\ args.cls = "SubAgentThrottle"
    /\ args.tokens_per_minute = 30000 /\ args.margin = <<2, 5>>
    /\ args.budget = Some(0) /\ args.chunk_size = None
    /\ tpm = 30000 /\ budget = 0 /\ chunk_size = 0

----------------------------------------------------------------------------
(* Properties of consume, checked under SpecConsume *)

\* what holds whenever the caller has control: it has received the first
\* chunks of the split in order, and consume has called wait_if_needed once
\* for each of them, with the estimate of that chunk, and for no other chunk
\* (the one call more is the call that raised BudgetExceeded)
ConsumeOrder ==
    /\ Len(yielded) <= Len(chunks)
    /\ yielded = SubSeq(chunks, 1, Len(yielded))
    /\ yielded # <<>> => chunks = SplitText(text, MaxChars).chunks
    /\ Len(admit_log) = Len(yielded) + (IF pc = "raised" THEN 1 ELSE 0)
    /\ \A i \in 1..Len(yielded) : admit_log[i] = Estimate(chunks[i])

\* what a step may do: call wait_if_needed at most once, change the tracker
\* only in such a call, and nothing at all once the caller has abandoned
\* the generator; abandoning it charges nothing
ConsumeCharges ==
    /\ Len(admit_log') <= Len(admit_log) + 1
    /\ <<tokens_used, window_start>>' # <<tokens_used, window_start>>
          => Len(admit_log') = Len(admit_log) + 1
    /\ (pc = "closed" \/ pc' = "closed")
          => UNCHANGED <<tokens_used, window_start, admit_log, yielded>>
    /\ pc = "closed" => pc' = "closed"

\* C7: consume yields the chunks of the split in order, the wait_if_needed
\* call for a chunk (with its estimate) is made after the chunk before it
\* was yielded and has returned when the chunk is yielded, and a caller that
\* stops after k chunks leaves exactly k calls made and the tracker as the
\* k-th call left it.
C7_AdmitThenYield == []ConsumeOrder /\ [][ConsumeCharges]_vars

\* the caller abandoned the generator after three of four chunks, the third
\* of which had to wait for a new window
C7_Witness ==
    /\ pc = "closed" /\ Len(yielded) = 3 /\ Len(chunks) = 4
    /\ Len(admit_log) = 3
    /\ ret.outcome = "slept" /\ tokens_used = admit_log[3]

----------------------------------------------------------------------------
(* Properties of _split_text, checked under SpecSplit *)

AllSpace(s) == \A i \in 1..Len(s) : IsSpace(s[i])

\* s with all white space deleted
Squeeze(s) == SelectSeq(s, LAMBDA c : ~IsSpace(c))

RECURSIVE Concat(_)
Concat(cs) == IF cs = <<>> THEN <<>> ELSE Head(cs) \o Concat(Tail(cs))

\* t is the chunks cs in order, with nothing but white space before, between
\* and after them
RECURSIVE Embeds(_, _)
Embeds(cs, t) ==
    IF cs = <<>> THEN AllSpace(t)
    ELSE LET c == Head(cs)
         IN  \E k \in 0..(Len(t) - Len(c)) :
                /\ AllSpace(Prefix(t, k))
                /\ SubSeq(t, k + 1, k + Len(c)) = c
                /\ Embeds(Tail(cs), Suffix(t, k + Len(c)))

\* the stepwise loop and the function SplitText describe the same list
SplitAgrees ==
    pc = "split_done" =>
        /\ SplitText(text, max_chars).returns
        /\ SplitText(text, max_chars).chunks = chunks

\* C8: for max_chars > 0 every chunk of _split_text(text, max_chars) is at
\* most max_chars characters long, whichever rule chose its break position.
C8_ChunkSizeBound ==
    max_chars > 0 => \A i \in 1..Len(chunks) : Len(chunks[i]) <= max_chars

\* a split into several chunks, one of them of exactly max_chars characters
C8_Witness ==
    /\ pc = "split_done" /\ max_chars >= 4 /\ Len(chunks) >= 2
    /\ \E i \in 1..Len(chunks) : Len(chunks[i]) = max_chars

\* C9: for max_chars > 0 the chunks are contiguous pieces of the text in
\* order, what lies between them is white space only, and deleting all white
\* space from their concatenation and from the text gives the same string.
C9_Lossless ==
    (pc = "split_done" /\ max_chars > 0) =>
        /\ Embeds(chunks, text)
        /\ Squeeze(Concat(chunks)) = Squeeze(text)

\* a split that dropped white space at a break and kept some inside a chunk
C9_Witness ==
    /\ pc = "split_done" /\ max_chars > 0 /\ Len(chunks) >= 2
    /\ Len(Concat(chunks)) < Len(text)
    /\ \E i \in 1..Len(chunks) : Squeeze(chunks[i]) # chunks[i]
    /\ \E i \in 1..Len(text) : IsSentenceEnd(text[i])

\* C10: for every max_chars that consume derives from chunk_size > 0, each
\* iteration of the peeling loop leaves remaining strictly shorter, so the
\* loop ends.
C10_EachIterationShortens ==
    [][(pc = "split_loop" /\ pc' = "split_loop")
          => Len(remaining') < Len(remaining)]_vars

\* C16: in every iteration of the peeling loop the break position accepted,
\* whichever rule produced it, is strictly greater than max_chars / 4 and at
\* most max_chars.
C16_BreakFloor ==
    [][(pc = "split_loop" /\ pc' = "split_loop")
          => (4 * break_pos' > max_chars /\ break_pos' <= max_chars)]_vars

\* C17: for max_chars >= 4 and a text longer than max_chars no chunk of
\* _split_text is empty or white space only, the first chunk of a text that
\* begins with white space included.
C17_NoEmptyChunk ==
    (max_chars >= 4 /\ Len(text) > max_chars)
        => \A i \in 1..Len(chunks) : ~AllSpace(chunks[i])

====
